---- MODULE Spec2Model ----
(***************************************************************************)
(* Model of the template flyer MyFlyer of "Flyer Basics" (the 1-D array    *)
(* version), its worker thread my_activity, the generator returned by      *)
(* collect(), and the two clients the notebook shows: cells that call the  *)
(* flyer's methods one at a time, and RE(bluesky.plans.fly([ifly])).       *)
(* The RunEngine also executes the other flyers of the notebook and the    *)
(* count and scan plans of "Hello Bluesky" and "Cross the Streams", with a *)
(* monitored signal, and records the documents of the run.                 *)
(***************************************************************************)
EXTENDS Integers, Sequences, FiniteSets, TLC

\* ------------------------------------------------------------------ bounds
\* kickoff() calls made in one behaviour (each one starts a worker thread)
MaxKickoffs == 2
\* collect() calls made in one behaviour (each one makes a generator)
MaxGens == 2
\* samples the monitored signal delivers in one run
MaxSamples == 3
\* instructions of a plan made of any read and set instructions
MaxPlanLen == 3
\* callbacks registered on one Status Future
MaxListeners == 2
\* rows of one stream's table, and the latest time of a row
MaxRows == 3
MaxTime == 4

\* ------------------------------------------------------- program constants
\* for _ in range(5): the number of events one collect() yields
NumEvents == 5

\* Python's None, as the value of the attribute complete_status; status
\* objects are numbered from 1 in creation order
None == 0
\* the attribute kickoff_status does not exist before the first kickoff()
Unset == -1

VARIABLES
    statuses,         \* the DeviceStatus objects created so far
    kickoff_status,   \* self.kickoff_status
    complete_status,  \* self.complete_status
    threads,          \* the my_activity threads started so far
    gens,             \* the generators made by collect() so far
    re,               \* what the notebook's kernel executes: a cell's list(g),
                      \* the RunEngine's fly plan, or nothing (idle)
    started,          \* history: a kickoff() was issued and no element of a
                      \* collect() has been requested since
    ret,              \* the method call made by the latest step and what it
                      \* returned or raised (none when a thread took the step)
    config,           \* what the session runs: the flyer class, the plan given
                      \* to RE, and whether sd.monitors holds the signal I
    docs,             \* the documents the RunEngine emitted in the latest run
    mon,              \* the subscription of the monitored signal
    future,           \* a Status Future taken alone: its state and its queue
    party,            \* the execution contexts that resolve it or register on it
    invoked,          \* how many times each registered callback was invoked
    tables,           \* the tables of "Cross the Streams" and the cell reached
    clock,            \* the time of the host
    stamps            \* the time of each document of docs

vars == <<statuses, kickoff_status, complete_status, threads, gens, re, started,
          ret, config, docs, mon, future, party, invoked, tables, clock, stamps>>
flyer == <<statuses, kickoff_status, complete_status, threads>>
run == <<config, docs, mon, stamps>>
sf == <<future, party, invoked>>

\* ------------------------------------------------------------ DeviceStatus
\* ophyd.DeviceStatus(self): a new status object, not done
NewStatus == [done |-> FALSE, success |-> FALSE]

\* status._finished(success=...): the first call marks the status done with
\* the given outcome; a call on a status that is already done changes nothing
finished(st, success) ==
    IF st.done THEN st ELSE [done |-> TRUE, success |-> success]

\* ---------------------------------------------------------- Status Future
\* the future as the contract describes it: the status object, and the queue
\* of the callbacks to invoke when it is resolved
NewFuture == [status |-> NewStatus, listeners |-> <<>>]

\* the execution contexts that call resolve(), and the callbacks registered
\* (each by an execution context of its own)
Resolvers == {"r1", "r2"}
Callbacks == 1..MaxListeners

\* mutant: a second resolution is accepted and replaces the outcome
resolve_again(f, success) ==
    [future |-> [status |-> [done |-> TRUE, success |-> success],
                 listeners |-> <<>>],
     error |-> "none",
     notify |-> f.listeners]

\* resolve(success): on a pending future, records the outcome and takes the
\* queued callbacks, which the resolving party then invokes; on a resolved
\* future, fails with DoubleResolutionError and changes nothing
resolve(f, success) ==
    IF f.status.done
    THEN [future |-> f, error |-> "DoubleResolutionError", notify |-> <<>>]
    ELSE [future |-> [status |-> finished(f.status, success), listeners |-> <<>>],
          error |-> "none",
          notify |-> f.listeners]

\* mutant: the callback is queued whatever the state of the future
add_listener_queued(f, cb) ==
    [future |-> [f EXCEPT !.listeners = Append(@, cb)], invoke |-> FALSE]

\* add_listener(callback): on a resolved future the callback is invoked
\* synchronously; on a pending one it is queued
add_listener(f, cb) ==
    IF f.status.done
    THEN [future |-> f, invoke |-> TRUE]
    ELSE [future |-> [f EXCEPT !.listeners = Append(@, cb)], invoke |-> FALSE]

\* a resolving party that has not called resolve() yet, and the state in
\* which no party has made its call
Ready == [pc |-> "ready", asked |-> FALSE, error |-> "none", notify |-> <<>>]
NoCalls == [resolver |-> [r \in Resolvers |-> Ready],
            registrant |-> [cb \in Callbacks |-> "ready"]]

\* ------------------------------------------- the tables of Cross the Streams
\* a cell of a table holds a number, kept as a fraction, or is empty (NaN)
Num(n) == [n |-> n, d |-> 1]
NaN == [n |-> 0, d |-> 0]
IsNaN(v) == v.d = 0
Same(v, w) == IF IsNaN(v) \/ IsNaN(w) THEN IsNaN(v) /\ IsNaN(w)
              ELSE v.n * w.d = w.n * v.d

\* v + (w - v) * a / b, for b > 0
Between(v, w, a, b) ==
    [n |-> v.n * w.d * b + (w.n * v.d - v.n * w.d) * a, d |-> v.d * w.d * b]

\* the columns of the merged table besides the time
Columns == {"slit_det", "I"}

\* rolling(window=3)
Window == 3

\* header.table(name): the rows of one stream, as (time, value) pairs, put
\* in the column of that stream; the other column is absent
Rows(stream, column) ==
    [i \in 1..Len(stream) |->
        [time |-> stream[i].time,
         slit_det |-> IF column = "slit_det" THEN stream[i].value ELSE NaN,
         I |-> IF column = "I" THEN stream[i].value ELSE NaN]]

\* mutant: rows with a time the first table already has are dropped
concat_joined(a, b) ==
    a \o SelectSeq(b, LAMBDA r : \A i \in 1..Len(a) : a[i].time # r.time)

\* pd.concat([a, b], axis=0): the rows of a, then the rows of b
concat(a, b) == a \o b

\* the row r put into the sorted table t, after the rows with the same time
RECURSIVE Inserted(_, _)
Inserted(t, r) ==
    IF t = <<>> THEN <<r>>
    ELSE IF t[Len(t)].time <= r.time THEN Append(t, r)
    ELSE Append(Inserted(SubSeq(t, 1, Len(t) - 1), r), t[Len(t)])

\* set_index('time').sort_index(): the rows in the order of their times
RECURSIVE sort_index(_)
sort_index(t) ==
    IF t = <<>> THEN <<>>
    ELSE Inserted(sort_index(SubSeq(t, 1, Len(t) - 1)), t[Len(t)])

\* the last row before row i where the column holds a value (0 if none), and
\* the first such row after row i (0 if none)
RECURSIVE Before(_, _, _)
Before(t, c, i) ==
    IF i <= 1 THEN 0
    ELSE IF ~IsNaN(t[i - 1][c]) THEN i - 1
    ELSE Before(t, c, i - 1)

RECURSIVE After(_, _, _)
After(t, c, i) ==
    IF i >= Len(t) THEN 0
    ELSE IF ~IsNaN(t[i + 1][c]) THEN i + 1
    ELSE After(t, c, i + 1)

\* mutant: an empty cell takes the next value of its column
ffill_cell_backward(t, c, i) ==
    IF ~IsNaN(t[i][c]) THEN t[i][c]
    ELSE IF After(t, c, i) = 0 THEN NaN
    ELSE t[After(t, c, i)][c]

\* ffill(): an empty cell takes the latest value above it in its column
ffill_cell(t, c, i) ==
    IF ~IsNaN(t[i][c]) THEN t[i][c]
    ELSE IF Before(t, c, i) = 0 THEN NaN
    ELSE t[Before(t, c, i)][c]

\* mutant: a value is carried down by one row only
ffill_one_row(t) ==
    [i \in 1..Len(t) |->
        [time |-> t[i].time,
         slit_det |-> IF IsNaN(t[i].slit_det) /\ i > 1 THEN t[i - 1].slit_det
                      ELSE t[i].slit_det,
         I |-> IF IsNaN(t[i].I) /\ i > 1 THEN t[i - 1].I ELSE t[i].I]]

ffill(t) ==
    [i \in 1..Len(t) |->
        [time |-> t[i].time,
         slit_det |-> ffill_cell(t, "slit_det", i),
         I |-> ffill_cell(t, "I", i)]]

\* interpolate('linear'): the rows are taken as equally spaced, whatever the
\* index holds. An empty cell between two values of its column lies on the
\* line through them over the row numbers; an empty cell below the last
\* value of the column takes that value; an empty cell above the first value
\* stays empty
interpolate_cell(t, c, i) ==
    LET b == Before(t, c, i)
        a == After(t, c, i) IN
    IF ~IsNaN(t[i][c]) THEN t[i][c]
    ELSE IF b = 0 THEN NaN
    ELSE IF a = 0 THEN t[b][c]
    ELSE Between(t[b][c], t[a][c], i - b, a - b)

interpolate(t) ==
    [i \in 1..Len(t) |->
        [time |-> t[i].time,
         slit_det |-> interpolate_cell(t, "slit_det", i),
         I |-> interpolate_cell(t, "I", i)]]

\* the sum of the values of the stream at the rows i..j
RECURSIVE Sum(_, _, _)
Sum(stream, i, j) ==
    IF i > j THEN Num(0)
    ELSE LET rest == Sum(stream, i + 1, j) IN
         [n |-> stream[i].value.n * rest.d + rest.n * stream[i].value.d,
          d |-> stream[i].value.d * rest.d]

\* mutant: the window is centred on the row
rolling_mean_centred(stream, w) ==
    [i \in 1..Len(stream) |->
        [time |-> stream[i].time,
         value |-> IF i < 2 \/ i + 1 > Len(stream) THEN NaN
                   ELSE LET sum == Sum(stream, i - 1, i + 1)
                        IN  [n |-> sum.n, d |-> sum.d * w]]]

\* rolling(window=w).mean(): at each row the mean of the w values that end
\* there; empty where fewer than w values exist
rolling_mean(stream, w) ==
    [i \in 1..Len(stream) |->
        [time |-> stream[i].time,
         value |-> IF i < w THEN NaN
                   ELSE LET sum == Sum(stream, i - w + 1, i)
                        IN  [n |-> sum.n, d |-> sum.d * w]]]

\* no table has been read or computed
NoTables ==
    [cell |-> "none", primary |-> <<>>, I_monitor |-> <<>>, data |-> <<>>,
     sorted_data |-> <<>>, ffilled_data |-> <<>>, interp_data |-> <<>>,
     sm_I |-> <<>>, sorted_sm_data |-> <<>>, interp_sm_data |-> <<>>]

\* ------------------------------------------------- the flyers of the notebook
\* BareMinimumFlyer, and the three versions of MyFlyer: the template, the one
\* with trivial data, and the one with a 1-D array of five events
Flyers == {"BareMinimumFlyer", "template", "trivial", "array"}

\* the name of the stream in the mapping describe_collect() returns
\* (self.name, or the literal 'ifly'; the notebook names the objects so)
StreamName(f) == IF f = "BareMinimumFlyer" THEN "flyer" ELSE "ifly"

\* the data keys describe_collect() declares for that stream
DataKeys(f) == IF f \in {"trivial", "array"} THEN {"x"} ELSE {}

\* mutant: the event carries a key that describe_collect() does not declare
EventData_undeclared(f) == IF f = "BareMinimumFlyer" THEN {} ELSE {"x"}

\* the keys of d['data'] in the dictionaries collect() yields
EventData(f) == IF f \in {"trivial", "array"} THEN {"x"} ELSE {}

\* the keys of d['timestamps'] in the dictionaries collect() yields
EventTimestamps(f) == IF f \in {"trivial", "array"} THEN {"x"} ELSE {}

\* the number of dictionaries one collect() yields: a single yield, or the
\* loop of the 1-D array version
EventCount(f) == IF f = "array" THEN NumEvents ELSE 1

\* ------------------------------------------------------------------- plans
\* bluesky.plans.fly([flyer]), between the opening and the closing of the run
FlyPlan == <<"kickoff", "wait", "complete", "wait", "collect">>

\* count([det], num=5) and scan([det], motor, -10, 10, 15)
CountNum == 5
ScanNum == 15

\* count([det], num): num readings of the detector
count(num) == [i \in 1..num |-> "read"]

\* scan([det], motor, start, stop, num): at each of the num points the motor
\* is set, then the detector is read
scan(num) == [i \in 1..(2 * num) |-> IF i % 2 = 1 THEN "set" ELSE "read"]

\* the keys of one reading of the detector, and of one sample of the signal I
ReadKeys == {"det"}
SampleKeys == {"I"}

\* a signal that is not subscribed
NotSubscribed ==
    [subscribed |-> FALSE, inflight |-> FALSE, fired |-> 0, arrived |-> 0,
     time |-> 0]

\* ----------------------------------------------------------------- MyFlyer
\* __init__: complete_status = None; no status, thread or generator exists
\* the latest time of the host
MaxClock == 2

\* mutant: the clock runs backwards
time_time_backwards == MaxClock - clock

\* time.time()
time_time == clock

\* the times of the documents of log: those already stamped keep their time,
\* a document just appended has the time t
Stamped(log, t) ==
    [i \in 1..Len(log) |-> IF i <= Len(stamps) THEN stamps[i] ELSE t]

Init ==
    /\ statuses = <<>>
    /\ kickoff_status = Unset
    /\ complete_status = None
    /\ threads = <<>>
    /\ gens = <<>>
    /\ re = [pc |-> "idle", st |-> None, gen |-> 0, i |-> 0]
    /\ started = FALSE
    /\ config = [flyer |-> "array", plan |-> FlyPlan, monitored |-> FALSE]
    /\ docs = <<>>
    /\ mon = NotSubscribed
    /\ future = NewFuture
    /\ party = NoCalls
    /\ invoked = [cb \in Callbacks |-> 0]
    /\ tables = NoTables
    /\ clock = 0
    /\ stamps = <<>>
    /\ ret = [op |-> "init", kind |-> "none", id |-> 0,
              data |-> {}, timestamps |-> {}]

\* the two status objects kickoff() creates, appended to those that exist
KickoffStatuses(old) == old \o <<NewStatus, NewStatus>>

\* kickoff(): creates the two status objects, stores them in the attributes,
\* starts a thread running my_activity and returns the kickoff status
kickoff ==
    /\ Len(threads) < MaxKickoffs
    /\ statuses' = KickoffStatuses(statuses)
    /\ kickoff_status' = Len(statuses) + 1
    /\ complete_status' = Len(statuses) + 2
    /\ threads' = Append(threads, [pc |-> "check"])
    /\ started' = TRUE
    /\ ret' = [op |-> "kickoff", kind |-> "status", id |-> Len(statuses) + 1,
               data |-> {}, timestamps |-> {}]
    /\ UNCHANGED gens

\* mutant: the test reads the other status attribute
NoCollectionInProgress_wrong_attribute == kickoff_status = None

\* if self.complete_status is None: raise RuntimeError(...)
NoCollectionInProgress == complete_status = None

\* complete(): raises when no collection is in progress, else returns the
\* complete status; changes nothing
complete ==
    /\ ret' = IF NoCollectionInProgress
              THEN [op |-> "complete", kind |-> "RuntimeError", id |-> 0,
                    data |-> {}, timestamps |-> {}]
              ELSE [op |-> "complete", kind |-> "status", id |-> complete_status,
                    data |-> {}, timestamps |-> {}]
    /\ UNCHANGED <<flyer, gens, started>>

\* mutant: the call runs the first statement of collect()'s body
describe_collect_clearing ==
    /\ ret' = [op |-> "describe_collect", kind |-> "descriptor", id |-> 0,
               data |-> DataKeys(config.flyer), timestamps |-> {}]
    /\ complete_status' = None
    /\ UNCHANGED <<statuses, kickoff_status, threads, gens, started>>

\* describe_collect(): returns the descriptor of the stream; changes nothing
describe_collect ==
    /\ ret' = [op |-> "describe_collect", kind |-> "descriptor", id |-> 0,
               data |-> DataKeys(config.flyer), timestamps |-> {}]
    /\ UNCHANGED <<flyer, gens, started>>

\* mutant: the call runs the first statement of the body
collect_clearing ==
    /\ Len(gens) < MaxGens
    /\ gens' = Append(gens, [state |-> "created", n |-> 0])
    /\ complete_status' = None
    /\ ret' = [op |-> "collect", kind |-> "generator", id |-> Len(gens) + 1,
               data |-> {}, timestamps |-> {}]
    /\ UNCHANGED <<statuses, kickoff_status, threads, started>>

\* collect(): the call makes a generator and runs none of the body
collect ==
    /\ Len(gens) < MaxGens
    /\ gens' = Append(gens, [state |-> "created", n |-> 0])
    /\ ret' = [op |-> "collect", kind |-> "generator", id |-> Len(gens) + 1,
               data |-> {}, timestamps |-> {}]
    /\ UNCHANGED <<flyer, started>>

\* mutant: the loop runs only while a collection is in progress
MoreEvents_guarded(n) == n < EventCount(config.flyer) /\ complete_status # None

\* range(5): whether the loop of collect() has another turn after n turns
\* (the versions without a loop yield once)
MoreEvents(n) == n < EventCount(config.flyer)

\* mutant: the statement that clears the attribute is missing
ClearedStatus_kept(cs) == cs

\* what the first statement of collect()'s body assigns to complete_status
ClearedStatus(cs) == None

\* next(g): runs the body of collect() to its next yield. The first request
\* runs "self.complete_status = None" before the loop; a request after the
\* last turn of the loop ends the generator (StopIteration)
next(g) ==
    /\ gens[g].state # "exhausted"
    /\ complete_status' =
          IF gens[g].state = "created" /\ config.flyer # "BareMinimumFlyer"
          THEN ClearedStatus(complete_status)
          ELSE complete_status
    /\ IF MoreEvents(gens[g].n)
       THEN /\ gens' = [gens EXCEPT ![g] =
                  [state |-> "suspended", n |-> @.n + 1]]
            /\ ret' = [op |-> "next", kind |-> "event", id |-> gens[g].n + 1,
                       data |-> EventData(config.flyer),
                       timestamps |-> EventTimestamps(config.flyer)]
       ELSE /\ gens' = [gens EXCEPT ![g] =
                  [state |-> "exhausted", n |-> @.n]]
            /\ ret' = [op |-> "next", kind |-> "StopIteration", id |-> 0,
                       data |-> {}, timestamps |-> {}]
    /\ started' = IF gens[g].state = "created" THEN FALSE ELSE started
    /\ UNCHANGED <<statuses, kickoff_status, threads>>

\* ------------------------------------------------------------- my_activity
\* a step of a thread is no method call
NoCall == [op |-> "none", kind |-> "none", id |-> 0,
           data |-> {}, timestamps |-> {}]

\* if self.complete_status is None: return
activity_check(t) ==
    /\ threads[t].pc = "check"
    /\ threads' = [threads EXCEPT ![t].pc =
          IF complete_status = None THEN "left" ELSE "notify_kickoff"]
    /\ ret' = NoCall
    /\ UNCHANGED <<statuses, kickoff_status, complete_status, gens, re, started>>

\* self.kickoff_status._finished(success=True)
activity_kickoff_finished(t) ==
    /\ threads[t].pc = "notify_kickoff"
    /\ statuses' = [statuses EXCEPT ![kickoff_status] = finished(@, TRUE)]
    /\ threads' = [threads EXCEPT ![t].pc = "notify_complete"]
    /\ ret' = NoCall
    /\ UNCHANGED <<kickoff_status, complete_status, gens, re, started>>

\* mutant: the thread ends without the call that resolves the complete status
activity_complete_forgotten(t) ==
    /\ threads[t].pc = "notify_complete"
    /\ threads' = [threads EXCEPT ![t].pc = "done"]
    /\ ret' = NoCall
    /\ UNCHANGED <<statuses, kickoff_status, complete_status, gens, re, started>>

\* self.complete_status._finished(success=True): an AttributeError ends the
\* thread when the attribute holds None by then
activity_complete_finished(t) ==
    /\ threads[t].pc = "notify_complete"
    /\ IF complete_status = None
       THEN /\ threads' = [threads EXCEPT ![t].pc = "raised"]
            /\ UNCHANGED statuses
       ELSE /\ statuses' = [statuses EXCEPT ![complete_status] = finished(@, TRUE)]
            /\ threads' = [threads EXCEPT ![t].pc = "done"]
    /\ ret' = NoCall
    /\ UNCHANGED <<kickoff_status, complete_status, gens, re, started>>

my_activity(t) ==
    \/ activity_check(t)
    \/ activity_kickoff_finished(t)
    \/ activity_complete_finished(t)

\* ------------------------------------------------- notebook cells (caller)
\* a cell runs only while the kernel executes nothing else
CellKickoff == re.pc = "idle" /\ kickoff /\ UNCHANGED <<re, run, sf, tables, clock>>
CellComplete == re.pc = "idle" /\ complete /\ UNCHANGED <<re, run, sf, tables, clock>>
CellDescribeCollect == re.pc = "idle" /\ describe_collect /\ UNCHANGED <<re, run, sf, tables, clock>>
CellCollect == re.pc = "idle" /\ collect /\ UNCHANGED <<re, run, sf, tables, clock>>

\* list(g): the cell takes the elements of a generator until it is exhausted
CellList ==
    \E g \in 1..Len(gens) :
        /\ re.pc = "idle"
        /\ gens[g].state = "created"
        /\ next(g)
        /\ re' = [re EXCEPT !.pc = "list", !.gen = g]
        /\ UNCHANGED <<run, sf, tables, clock>>

CellListNext ==
    /\ re.pc = "list"
    /\ next(re.gen)
    /\ re' = IF ret'.kind = "StopIteration"
             THEN [re EXCEPT !.pc = "idle", !.gen = 0]
             ELSE re
    /\ UNCHANGED <<run, sf, tables, clock>>

\* ----------------------------------------------------------- the documents
\* a document of a run: its name; the stream of a descriptor or an event;
\* the sequence number of an event; the data keys; the exit status of a stop
Document(name, stream, seq_num, data, exit_status) ==
    [name |-> name, stream |-> stream, seq_num |-> seq_num, data |-> data,
     exit_status |-> exit_status]

StartDocument == Document("start", "", 0, {}, "")
StopDocument(exit_status) == Document("stop", "", 0, {}, exit_status)
Descriptor(stream, data_keys) == Document("descriptor", stream, 0, data_keys, "")
Event(stream, seq_num, data) == Document("event", stream, seq_num, data, "")

\* a run is open from its start document to its stop document
Sealed(log) == \E i \in 1..Len(log) : log[i].name = "stop"
Open(log) == log # <<>> /\ ~Sealed(log)

Described(log, stream) ==
    \E i \in 1..Len(log) : log[i].name = "descriptor" /\ log[i].stream = stream

EventsOf(log, stream) ==
    SelectSeq(log, LAMBDA d : d.name = "event" /\ d.stream = stream)

\* mutant: a document is appended to a sealed run too
emit_after_stop(log, doc) == Append(log, doc)

\* the emitter appends a document to the log of the open run, and to no other
emit(log, doc) == IF Open(log) THEN Append(log, doc) ELSE log

\* the descriptor of a stream is emitted once, when the stream is created
declare_stream(log, stream, data_keys) ==
    IF Described(log, stream) THEN log
    ELSE emit(log, Descriptor(stream, data_keys))

\* mutant: one counter numbers the events of all the streams of the run
NextSeqNum_shared(log, stream) ==
    Len(SelectSeq(log, LAMBDA d : d.name = "event")) + 1

\* mutant: the counter of a stream starts at 0
NextSeqNum_from_zero(log, stream) == Len(EventsOf(log, stream))

\* sequence numbers are per stream and count from 1
NextSeqNum(log, stream) == Len(EventsOf(log, stream)) + 1

\* mutant: the event is appended without looking for the descriptor
emit_event_undeclared(log, stream, data) ==
    emit(log, Event(stream, NextSeqNum(log, stream), data))

\* an event is appended to its stream, after the stream's descriptor
emit_event(log, stream, data) ==
    LET declared == declare_stream(log, stream, data)
    IN  emit(declared, Event(stream, NextSeqNum(declared, stream), data))

\* mutant: a stream or an event without data keys is recorded too
HasContent_always(keys) == TRUE

\* mutant: no event of a flyer is recorded
HasContent_never(keys) == FALSE

\* "Only two documents were emitted from the RunEngine: start and stop since
\* we generated no data content": what a flyer declares or yields without a
\* data key leaves no document
HasContent(keys) == keys # {}

\* ------------------------------------------------ BareMinimumFlyer's methods
\* kickoff(): a new status object, finished at once, is returned; the flyer
\* keeps no attribute and starts no thread
BareMinimumFlyer_kickoff ==
    /\ statuses' = Append(statuses, finished(NewStatus, TRUE))
    /\ started' = TRUE
    /\ ret' = [op |-> "kickoff", kind |-> "status", id |-> Len(statuses) + 1,
               data |-> {}, timestamps |-> {}]
    /\ UNCHANGED <<kickoff_status, complete_status, threads, gens>>

\* complete(): the same, with a status object of its own; it never raises
BareMinimumFlyer_complete ==
    /\ statuses' = Append(statuses, finished(NewStatus, TRUE))
    /\ ret' = [op |-> "complete", kind |-> "status", id |-> Len(statuses) + 1,
               data |-> {}, timestamps |-> {}]
    /\ UNCHANGED <<kickoff_status, complete_status, threads, gens, started>>

\* ---------------------------------------------------- RE(plan) (the caller)
\* the cell hands the plan to the RunEngine: the run is opened, its start
\* document emitted, the signals of sd.monitors subscribed
RE_start ==
    /\ re.pc = "idle"
    /\ config.plan = FlyPlan => (Len(threads) < MaxKickoffs /\ Len(gens) < MaxGens)
    /\ re' = [re EXCEPT !.pc = IF config.plan = FlyPlan THEN "kickoff"
                              ELSE IF config.plan = <<>> THEN "close"
                              ELSE "run",
                        !.i = 0]
    /\ docs' = <<StartDocument>>
    /\ stamps' = <<time_time>>
    /\ mon' = [NotSubscribed EXCEPT !.subscribed = config.monitored]
    /\ ret' = [op |-> "RE", kind |-> "started", id |-> 0,
               data |-> {}, timestamps |-> {}]
    /\ UNCHANGED <<flyer, gens, started, config, sf, tables, clock>>

RE_kickoff ==
    /\ re.pc = "kickoff"
    /\ IF config.flyer = "BareMinimumFlyer" THEN BareMinimumFlyer_kickoff
       ELSE kickoff
    /\ re' = [re EXCEPT !.pc = "wait_kickoff", !.st = ret'.id]
    /\ UNCHANGED <<run, sf, tables, clock>>

\* the plan goes on when the status it waits for is done
RE_wait ==
    /\ re.pc \in {"wait_kickoff", "wait_complete"}
    /\ statuses[re.st].done
    /\ re' = [re EXCEPT !.pc = IF re.pc = "wait_kickoff" THEN "complete" ELSE "collect",
                        !.st = None]
    /\ ret' = [op |-> "wait", kind |-> "done", id |-> re.st,
               data |-> {}, timestamps |-> {}]
    /\ UNCHANGED <<flyer, gens, started, run, sf, tables, clock>>

\* an exception raised by complete() ends the plan
RE_complete ==
    /\ re.pc = "complete"
    /\ IF config.flyer = "BareMinimumFlyer" THEN BareMinimumFlyer_complete
       ELSE complete
    /\ re' = IF ret'.kind = "RuntimeError"
             THEN [re EXCEPT !.pc = "failed"]
             ELSE [re EXCEPT !.pc = "wait_complete", !.st = ret'.id]
    /\ UNCHANGED <<run, sf, tables, clock>>

\* the collect instruction: describe_collect() is called before collect(),
\* and a stream it declares with data keys gets its descriptor
RE_collect ==
    /\ re.pc = "collect"
    /\ collect
    /\ re' = [re EXCEPT !.pc = "collecting", !.gen = ret'.id]
    /\ docs' = IF HasContent(DataKeys(config.flyer))
               THEN declare_stream(docs, StreamName(config.flyer),
                                   DataKeys(config.flyer))
               ELSE docs
    /\ stamps' = Stamped(docs', time_time)
    /\ UNCHANGED <<config, mon, sf, tables, clock>>

\* for ev in collect(): the plan takes every element of the generator, and
\* an event with data is appended to the flyer's stream
RE_next ==
    /\ re.pc = "collecting"
    /\ next(re.gen)
    /\ re' = IF ret'.kind = "StopIteration"
             THEN [re EXCEPT !.pc = "close", !.gen = 0]
             ELSE re
    /\ docs' = IF ret'.kind = "event" /\ HasContent(ret'.data)
               THEN emit_event(docs, StreamName(config.flyer), ret'.data)
               ELSE docs
    /\ stamps' = Stamped(docs', time_time)
    /\ UNCHANGED <<config, mon, sf, tables, clock>>

\* where the plan stands after the instruction at index i
AfterInstruction(i) == IF i = Len(config.plan) THEN "close" ELSE "run"

\* a read instruction: the reading becomes an event of the primary stream
RE_read ==
    /\ re.pc = "run"
    /\ config.plan[re.i + 1] = "read"
    /\ docs' = emit_event(docs, "primary", ReadKeys)
    /\ stamps' = Stamped(docs', time_time)
    /\ re' = [re EXCEPT !.i = @ + 1, !.pc = AfterInstruction(re.i + 1)]
    /\ ret' = [op |-> "read", kind |-> "reading", id |-> re.i + 1,
               data |-> ReadKeys, timestamps |-> ReadKeys]
    /\ UNCHANGED <<flyer, gens, started, config, mon, sf, tables, clock>>

\* a set instruction: the motor is moved; no document
RE_set ==
    /\ re.pc = "run"
    /\ config.plan[re.i + 1] = "set"
    /\ re' = [re EXCEPT !.i = @ + 1, !.pc = AfterInstruction(re.i + 1)]
    /\ ret' = [op |-> "set", kind |-> "status", id |-> re.i + 1,
               data |-> {}, timestamps |-> {}]
    /\ UNCHANGED <<flyer, gens, started, run, sf, tables, clock>>

\* the plan is over: the signals are unsubscribed, the stop document is
\* emitted, and RE(...) returns to the cell or raises what ended the plan
RE_close ==
    /\ re.pc \in {"close", "failed"}
    /\ re' = [re EXCEPT !.pc = "idle"]
    /\ docs' = emit(docs, StopDocument(IF re.pc = "close" THEN "success" ELSE "fail"))
    /\ stamps' = Stamped(docs', time_time)
    /\ mon' = [mon EXCEPT !.subscribed = FALSE]
    /\ ret' = [op |-> "RE", kind |-> IF re.pc = "close" THEN "returned" ELSE "raised",
               id |-> 0, data |-> {}, timestamps |-> {}]
    /\ UNCHANGED <<flyer, gens, started, config, sf, tables, clock>>

RunEngine == RE_kickoff \/ RE_wait \/ RE_complete \/ RE_collect \/ RE_next \/ RE_close

\* -------------------------------------------------- the monitored signal I
\* the signal changes while it is subscribed: a sample is on its way
monitor_sample ==
    /\ mon.subscribed
    /\ ~mon.inflight
    /\ mon.fired < MaxSamples
    /\ mon' = [mon EXCEPT !.inflight = TRUE, !.fired = @ + 1, !.time = time_time]
    /\ ret' = NoCall
    /\ UNCHANGED <<flyer, gens, re, started, config, docs, stamps, sf, tables, clock>>

\* the sample arrives: it becomes an event of the stream I_monitor
monitor_event ==
    /\ mon.inflight
    /\ docs' = emit_event(docs, "I_monitor", SampleKeys)
    /\ stamps' = Stamped(docs', mon.time)
    /\ mon' = [mon EXCEPT !.inflight = FALSE,
                          !.arrived = IF Open(docs) THEN @ + 1 ELSE @]
    /\ ret' = NoCall
    /\ UNCHANGED <<flyer, gens, re, started, config, sf, tables, clock>>

Worker(t) == t \in 1..Len(threads) /\ my_activity(t) /\ UNCHANGED <<run, sf, tables, clock>>

Next ==
    \/ CellKickoff
    \/ CellComplete
    \/ CellDescribeCollect
    \/ CellCollect
    \/ CellList
    \/ CellListNext
    \/ RE_start
    \/ RE_kickoff
    \/ RE_wait
    \/ RE_complete
    \/ RE_collect
    \/ RE_next
    \/ RE_close
    \/ \E t \in 1..MaxKickoffs : Worker(t)

Spec == Init /\ [][Next]_vars

\* -------------------------------------------- the runs of the RunEngine alone
\* the plans made of read and set instructions only, up to a length
ReadSetPlans ==
    UNION {[1..n -> {"read", "set"}] : n \in 0..MaxPlanLen}

\* the plans the notebooks hand to RE
NotebookPlans == {FlyPlan, count(1), count(CountNum), scan(ScanNum)}

\* a session: a flyer with the fly plan, or a plan of readings; with or
\* without sd.monitors.append(I)
Sessions ==
    {[flyer |-> f, plan |-> FlyPlan, monitored |-> m] :
        f \in Flyers, m \in BOOLEAN}
    \cup {[flyer |-> "array", plan |-> p, monitored |-> m] :
        p \in (ReadSetPlans \cup NotebookPlans) \ {FlyPlan}, m \in BOOLEAN}

RunInit ==
    /\ statuses = <<>>
    /\ kickoff_status = Unset
    /\ complete_status = None
    /\ threads = <<>>
    /\ gens = <<>>
    /\ re = [pc |-> "idle", st |-> None, gen |-> 0, i |-> 0]
    /\ started = FALSE
    /\ config \in Sessions
    /\ docs = <<>>
    /\ mon = NotSubscribed
    /\ future = NewFuture
    /\ party = NoCalls
    /\ invoked = [cb \in Callbacks |-> 0]
    /\ tables = NoTables
    /\ clock = 0
    /\ stamps = <<>>
    /\ ret = [op |-> "init", kind |-> "none", id |-> 0,
              data |-> {}, timestamps |-> {}]

RunNext ==
    \/ RE_start
    \/ RE_kickoff
    \/ RE_wait
    \/ RE_complete
    \/ RE_collect
    \/ RE_next
    \/ RE_read
    \/ RE_set
    \/ RE_close
    \/ monitor_sample
    \/ monitor_event
    \/ \E t \in 1..MaxKickoffs : Worker(t)

RunSpec == RunInit /\ [][RunNext]_vars

\* ------------------------------------------------- a plan made of other plans
\* the instructions of a plan, each marked with the plan that was delegated
\* to and the iteration of the loop that delegated
Delegated(plan, by, iteration) ==
    [k \in 1..Len(plan) |-> [op |-> plan[k], by |-> by, iteration |-> iteration]]

\* mv(det.exp, t): the exposure time is set, and the plan waits for it
mv == <<"set">>

\* RE(sweep_exposure_time([0.1, 1, 10])): the times, in tenths of a second
ExposureTimes == <<1, 10, 100>>

\* the iterations n, n + 1, ... of the loop
RECURSIVE sweep_from(_, _)
sweep_from(times, n) ==
    IF n > Len(times) THEN <<>>
    ELSE Delegated(mv, "mv", n) \o Delegated(scan(ScanNum), "scan", n)
         \o sweep_from(times, n + 1)

\* mutant: every iteration scans before it sets the exposure time
RECURSIVE sweep_scan_first(_)
sweep_scan_first(times) ==
    IF times = <<>> THEN <<>>
    ELSE sweep_scan_first(SubSeq(times, 1, Len(times) - 1))
         \o Delegated(scan(ScanNum), "scan", Len(times))
         \o Delegated(mv, "mv", Len(times))

\* for t in times: yield from mv(det.exp, t); yield from scan(...)
sweep_exposure_time(times) == sweep_from(times, 1)

\* the instructions as the interpreter receives them
Ops(plan) == [k \in 1..Len(plan) |-> plan[k].op]

SweepPlan == Ops(sweep_exposure_time(ExposureTimes))

SweepSessions ==
    {[flyer |-> f, plan |-> FlyPlan, monitored |-> FALSE] : f \in Flyers}
    \cup {[flyer |-> "array", plan |-> SweepPlan, monitored |-> FALSE]}

SweepInit ==
    /\ statuses = <<>>
    /\ kickoff_status = Unset
    /\ complete_status = None
    /\ threads = <<>>
    /\ gens = <<>>
    /\ re = [pc |-> "idle", st |-> None, gen |-> 0, i |-> 0]
    /\ started = FALSE
    /\ config \in SweepSessions
    /\ docs = <<>>
    /\ mon = NotSubscribed
    /\ future = NewFuture
    /\ party = NoCalls
    /\ invoked = [cb \in Callbacks |-> 0]
    /\ tables = NoTables
    /\ clock = 0
    /\ stamps = <<>>
    /\ ret = [op |-> "init", kind |-> "none", id |-> 0,
              data |-> {}, timestamps |-> {}]

SweepNext ==
    \/ RE_start
    \/ RE_kickoff
    \/ RE_wait
    \/ RE_complete
    \/ RE_collect
    \/ RE_next
    \/ RE_read
    \/ RE_set
    \/ RE_close
    \/ \E t \in 1..MaxKickoffs : Worker(t)

SweepSpec == SweepInit /\ [][SweepNext]_vars

\* ------------------------------------------------------------ a run aborted
\* mutant: the interpreter goes on with the plan
Halted_continuing(r) == r

\* the interpreter after an abort: it awaits nothing, iterates nothing and
\* dispatches nothing more; the index of the last instruction stays
Halted(r) == [r EXCEPT !.pc = "idle", !.st = None, !.gen = 0]

\* the run under way is aborted: the status the interpreter awaits is
\* failed, the monitored signal is unsubscribed, the stop document records
\* abort, and RE(...) raises; the threads of the flyer are not stopped
RE_abort ==
    /\ Open(docs)
    /\ Len(statuses) < 2 * MaxKickoffs
    /\ re' = Halted(re)
    /\ statuses' = IF re.st = None THEN statuses
                   ELSE [statuses EXCEPT ![re.st] = finished(@, FALSE)]
    /\ docs' = emit(docs, StopDocument("abort"))
    /\ stamps' = Stamped(docs', time_time)
    /\ mon' = [mon EXCEPT !.subscribed = FALSE]
    /\ ret' = [op |-> "RE", kind |-> "aborted", id |-> 0,
               data |-> {}, timestamps |-> {}]
    /\ UNCHANGED <<kickoff_status, complete_status, threads, gens, started,
                   config, sf, tables, clock>>

\* the fly plan, and the scan of the notebooks with a signal monitored
AbortSessions ==
    {[flyer |-> "array", plan |-> FlyPlan, monitored |-> FALSE],
     [flyer |-> "array", plan |-> scan(ScanNum), monitored |-> TRUE]}

AbortInit ==
    /\ statuses = <<>>
    /\ kickoff_status = Unset
    /\ complete_status = None
    /\ threads = <<>>
    /\ gens = <<>>
    /\ re = [pc |-> "idle", st |-> None, gen |-> 0, i |-> 0]
    /\ started = FALSE
    /\ config \in AbortSessions
    /\ docs = <<>>
    /\ mon = NotSubscribed
    /\ future = NewFuture
    /\ party = NoCalls
    /\ invoked = [cb \in Callbacks |-> 0]
    /\ tables = NoTables
    /\ clock = 0
    /\ stamps = <<>>
    /\ ret = [op |-> "init", kind |-> "none", id |-> 0,
              data |-> {}, timestamps |-> {}]

AbortNext ==
    \/ RunNext
    \/ RE_abort

AbortSpec == AbortInit /\ [][AbortNext]_vars

\* ---------------------------------------------------- a run while time passes
\* time passes on the host while a run is under way
tick ==
    /\ clock < MaxClock
    /\ Open(docs)
    /\ clock' = clock + 1
    /\ UNCHANGED <<flyer, gens, re, started, ret, run, sf, tables>>

\* the sessions where a monitor appends next to the flyer's collect() or
\* next to the readings of the interpreter
ClockSessions ==
    {[flyer |-> "array", plan |-> p, monitored |-> TRUE] :
        p \in {count(n) : n \in 1..MaxPlanLen} \cup {FlyPlan}}

ClockInit ==
    /\ statuses = <<>>
    /\ kickoff_status = Unset
    /\ complete_status = None
    /\ threads = <<>>
    /\ gens = <<>>
    /\ re = [pc |-> "idle", st |-> None, gen |-> 0, i |-> 0]
    /\ started = FALSE
    /\ config \in ClockSessions
    /\ docs = <<>>
    /\ mon = NotSubscribed
    /\ future = NewFuture
    /\ party = NoCalls
    /\ invoked = [cb \in Callbacks |-> 0]
    /\ tables = NoTables
    /\ clock = 0
    /\ stamps = <<>>
    /\ ret = [op |-> "init", kind |-> "none", id |-> 0,
              data |-> {}, timestamps |-> {}]

\* one run of the session, from RE(plan) to the stop document
ClockNext ==
    \/ ~Sealed(docs) /\ RunNext
    \/ tick

ClockSpec == ClockInit /\ [][ClockNext]_vars

\* ------------------------------------------------ a Status Future taken alone
\* a party calls resolve(success)
future_resolve(r) ==
    \E success \in BOOLEAN :
        LET call == resolve(future, success) IN
        /\ party.resolver[r].pc = "ready"
        /\ future' = call.future
        /\ party' = [party EXCEPT !.resolver[r] =
                        [pc |-> IF call.error # "none" THEN "raised"
                                ELSE IF call.notify = <<>> THEN "done"
                                ELSE "notifying",
                         asked |-> success,
                         error |-> call.error,
                         notify |-> call.notify]]
        /\ UNCHANGED <<flyer, gens, re, started, ret, run, invoked, tables, clock>>

\* the resolving party invokes the next of the callbacks it took
future_notify(r) ==
    /\ party.resolver[r].pc = "notifying"
    /\ invoked' = [invoked EXCEPT ![Head(party.resolver[r].notify)] = @ + 1]
    /\ party' = [party EXCEPT !.resolver[r].notify = Tail(@),
                              !.resolver[r].pc =
                                  IF Len(party.resolver[r].notify) = 1
                                  THEN "done" ELSE "notifying"]
    /\ UNCHANGED <<flyer, gens, re, started, ret, run, future, tables, clock>>

\* a party calls add_listener(cb)
future_add_listener(cb) ==
    LET call == add_listener(future, cb) IN
    /\ party.registrant[cb] = "ready"
    /\ future' = call.future
    /\ invoked' = IF call.invoke THEN [invoked EXCEPT ![cb] = @ + 1] ELSE invoked
    /\ party' = [party EXCEPT !.registrant[cb] = "registered"]
    /\ UNCHANGED <<flyer, gens, re, started, ret, run, tables, clock>>

StatusNext ==
    \/ \E r \in Resolvers : future_resolve(r)
    \/ \E r \in Resolvers : future_notify(r)
    \/ \E cb \in Callbacks : future_add_listener(cb)

StatusSpec == Init /\ [][StatusNext]_vars

\* ----------------------------------------------- the cells that align streams
\* the times of the rows of a stream: ascending, as its events were emitted
Times == 0..MaxTime

RECURSIVE Ascending(_)
Ascending(T) ==
    IF T = {} THEN <<>>
    ELSE LET t == CHOOSE x \in T : \A y \in T : x <= y
         IN  <<t>> \o Ascending(T \ {t})

\* the readings of the detector and of the monitored signal
Reading(t) == Num(10 + t)
Samples == {Num(0), Num(6)}

\* the tables of the two streams of a run
PrimaryTables ==
    {[i \in 1..Len(Ascending(T)) |->
        [time |-> Ascending(T)[i], value |-> Reading(Ascending(T)[i])]] :
     T \in {U \in SUBSET Times : Cardinality(U) <= MaxRows}}

MonitorTables ==
    UNION {{[i \in 1..Len(Ascending(T)) |->
                [time |-> Ascending(T)[i], value |-> v[i]]] :
            v \in [1..Cardinality(T) -> Samples]} :
           T \in {U \in SUBSET Times : Cardinality(U) <= MaxRows}}

AlignInit ==
    /\ statuses = <<>>
    /\ kickoff_status = Unset
    /\ complete_status = None
    /\ threads = <<>>
    /\ gens = <<>>
    /\ re = [pc |-> "idle", st |-> None, gen |-> 0, i |-> 0]
    /\ started = FALSE
    /\ config = [flyer |-> "array", plan |-> scan(ScanNum), monitored |-> TRUE]
    /\ docs = <<>>
    /\ mon = NotSubscribed
    /\ future = NewFuture
    /\ party = NoCalls
    /\ invoked = [cb \in Callbacks |-> 0]
    /\ ret = [op |-> "init", kind |-> "none", id |-> 0,
              data |-> {}, timestamps |-> {}]
    /\ tables \in {[NoTables EXCEPT !.cell = "run", !.primary = p,
                                    !.I_monitor = m] :
                   p \in PrimaryTables, m \in MonitorTables}
    /\ clock = 0
    /\ stamps = <<>>

\* data = pd.concat([header.table('primary'), header.table('I_monitor')], axis=0)
cell_concat ==
    /\ tables.cell = "run"
    /\ tables' = [tables EXCEPT
                    !.cell = "data",
                    !.data = concat(Rows(tables.primary, "slit_det"),
                                    Rows(tables.I_monitor, "I"))]
    /\ UNCHANGED <<flyer, gens, re, started, ret, run, sf, clock>>

\* sorted_data = data.set_index('time').sort_index()
cell_sort_index ==
    /\ tables.cell = "data"
    /\ tables' = [tables EXCEPT !.cell = "sorted_data",
                                !.sorted_data = sort_index(tables.data)]
    /\ UNCHANGED <<flyer, gens, re, started, ret, run, sf, clock>>

\* ffilled_data = sorted_data.ffill()
cell_ffill ==
    /\ tables.cell = "sorted_data"
    /\ tables' = [tables EXCEPT !.cell = "ffilled_data",
                                !.ffilled_data = ffill(tables.sorted_data)]
    /\ UNCHANGED <<flyer, gens, re, started, ret, run, sf, clock>>

\* interp_data = sorted_data.interpolate('linear')
cell_interpolate ==
    /\ tables.cell = "ffilled_data"
    /\ tables' = [tables EXCEPT !.cell = "interp_data",
                                !.interp_data = interpolate(tables.sorted_data)]
    /\ UNCHANGED <<flyer, gens, re, started, ret, run, sf, clock>>

\* the cell that smooths I over a window, merges, sorts and interpolates
cell_downsample ==
    LET sm_I == rolling_mean(tables.I_monitor, Window)
        sm_data == concat(Rows(tables.primary, "slit_det"), Rows(sm_I, "I"))
        sorted_sm_data == sort_index(sm_data) IN
    /\ tables.cell = "interp_data"
    /\ tables' = [tables EXCEPT !.cell = "interp_sm_data",
                                !.sm_I = sm_I,
                                !.sorted_sm_data = sorted_sm_data,
                                !.interp_sm_data = interpolate(sorted_sm_data)]
    /\ UNCHANGED <<flyer, gens, re, started, ret, run, sf, clock>>

AlignNext ==
    \/ cell_concat
    \/ cell_sort_index
    \/ cell_ffill
    \/ cell_interpolate
    \/ cell_downsample

AlignSpec == AlignInit /\ [][AlignNext]_vars

\* the threads are scheduled fairly, and a plan or a list(g) that the kernel
\* executes keeps executing
FairSpec ==
    /\ Spec
    /\ \A t \in 1..MaxKickoffs : WF_vars(Worker(t))
    /\ WF_vars(RunEngine)
    /\ WF_vars(CellListNext)

TypeOK ==
    /\ Len(threads) <= MaxKickoffs
    /\ Len(gens) <= MaxGens
    /\ Len(statuses) = 2 * Len(threads)
    /\ kickoff_status \in {Unset} \cup (1..Len(statuses))
    /\ complete_status \in {None} \cup (1..Len(statuses))
    /\ re.pc \in {"list", "collecting"} <=> re.gen # 0

\* ------------------------------------------------------------------ claims
\* the status objects made by the latest kickoff()
LatestKickoffStatus == 2 * Len(threads) - 1
LatestCompleteStatus == 2 * Len(threads)

\* the states of the protocol, read off the calls made and the status objects
Idle == ~started
KickoffPending == started /\ ~statuses[LatestKickoffStatus].done

\* the step takes the first element of generator g
FirstRequest(g) == gens[g].state = "created" /\ gens'[g].state # "created"

\* C1: a complete() made while the flyer is Idle (never kicked off, or not
\* kicked off since a collect() was last iterated) raises, returns no status
\* and leaves the flyer as it was.
C1_CompleteWhileIdleFails ==
    [][(ret'.op = "complete" /\ Idle) =>
          /\ ret'.kind = "RuntimeError"
          /\ ret'.id = None
          /\ UNCHANGED <<flyer, gens, started>>]_vars

\* C1 witness: after a cycle has been collected, complete() has just raised
C1_Witness ==
    /\ ret.op = "complete"
    /\ ret.kind = "RuntimeError"
    /\ Len(threads) >= 1
    /\ Idle

\* C2 (as claimed): a kickoff() made while the cycle of an earlier kickoff()
\* is in progress is rejected, keeps the current status objects and starts
\* no thread.
C2_ReentrantKickoffRejected ==
    [][(ret'.op = "kickoff" /\ ~Idle) =>
          /\ ret'.kind = "ProtocolViolation"
          /\ UNCHANGED <<statuses, kickoff_status, complete_status, threads>>]_vars

\* C3 (as claimed): the first element of a collect() is yielded only when the
\* flyer was kicked off and the complete status of that cycle is resolved.
C3_CollectOnlyAfterComplete ==
    [][\A g \in 1..Len(gens) :
          (FirstRequest(g) /\ ret'.kind = "event") =>
              (started /\ statuses[LatestCompleteStatus].done)]_vars

\* C3 (amended): collect() tests nothing: whatever the state of the flyer,
\* each request yields the next of the NumEvents events, and the request
\* after the last one ends the sequence.
C3_CollectAcceptedInEveryState ==
    [][\A g \in 1..Len(gens) :
          gens'[g] # gens[g] =>
              IF gens[g].n < NumEvents
              THEN /\ ret'.kind = "event"
                   /\ ret'.id = gens[g].n + 1
                   /\ gens'[g] = [state |-> "suspended", n |-> gens[g].n + 1]
              ELSE /\ ret'.kind = "StopIteration"
                   /\ gens'[g] = [state |-> "exhausted", n |-> NumEvents]]_vars

\* C3 witness: list(g) has taken the first element while the complete status
\* of the only kickoff() is still pending
C3_Witness ==
    /\ re.pc = "list"
    /\ gens[re.gen].n = 1
    /\ Len(threads) = 1
    /\ ~statuses[LatestCompleteStatus].done

\* C4 (as claimed): in a cycle that has been collected once, the first
\* request on another collect() is rejected and yields nothing.
C4_SecondCollectRejected ==
    [][\A g \in 1..Len(gens) :
          (/\ FirstRequest(g)
           /\ Len(threads) >= 1
           /\ statuses[LatestCompleteStatus].done
           /\ Idle
           /\ \E h \in 1..Len(gens) : gens[h].state = "exhausted") =>
              (ret'.kind = "ProtocolViolation" /\ gens'[g].n = 0)]_vars

\* C5 (as claimed): a complete() made while the kickoff status of the cycle
\* is still pending returns no status.
C5_CompleteOnlyWhenFlying ==
    [][(ret'.op = "complete" /\ KickoffPending) => ret'.kind # "status"]_vars

\* C6 (as claimed): while the plan is taking the elements of collect() and
\* the sequence is not exhausted, the flyer is not Idle: complete() succeeds.
C6_IdleOnlyAfterExhaustion ==
    (re.pc = "collecting" /\ gens[re.gen].state = "suspended")
        => ~NoCollectionInProgress

\* C6 (amended): the flyer is Idle from the request of the first element of a
\* collect() on, and so after its exhaustion: complete() fails until the next
\* kickoff(); a kickoff() stores two new status objects, both pending; and
\* only the request of a first element makes the flyer Idle.
C6_IdleFromFirstRequest ==
    [][/\ \A g \in 1..Len(gens) : FirstRequest(g) => complete_status' = None
       /\ (NoCollectionInProgress /\ complete_status' # None) => ret'.op = "kickoff"
       /\ ret'.op = "kickoff" =>
             /\ kickoff_status' \notin 1..Len(statuses)
             /\ complete_status' \notin 1..Len(statuses)
             /\ kickoff_status' # complete_status'
             /\ ~statuses'[kickoff_status'].done
             /\ ~statuses'[complete_status'].done
       /\ (~NoCollectionInProgress /\ complete_status' = None) =>
             \E g \in 1..Len(gens) : FirstRequest(g)]_vars

\* C6 witness: the plan has taken the first of the elements and the flyer
\* is Idle already
C6_Witness ==
    /\ re.pc = "collecting"
    /\ gens[re.gen].n = 1
    /\ NoCollectionInProgress

\* C7: a plan that follows the protocol gets its kickoff status resolved as
\* succeeded, then its complete status resolved as succeeded, and returns
\* with the flyer Idle.
C7_PlanTerminates ==
    /\ (re.pc = "kickoff") ~>
          (re.pc = "complete" /\ ret.op = "wait" /\ statuses[ret.id].success)
    /\ (re.pc = "complete") ~>
          (re.pc = "collect" /\ ret.op = "wait" /\ statuses[ret.id].success)
    /\ (re.pc = "collect") ~>
          (re.pc = "idle" /\ ret.op = "RE" /\ ret.kind = "returned" /\ Idle
              /\ NoCollectionInProgress)

\* C7 witness: RE(...) has returned, both status objects of its cycle are
\* resolved as succeeded and the flyer is Idle
C7_Witness ==
    /\ ret.op = "RE"
    /\ ret.kind = "returned"
    /\ statuses[LatestKickoffStatus].success
    /\ statuses[LatestCompleteStatus].success
    /\ NoCollectionInProgress

\* C8 (as claimed): the complete status made by a kickoff() is never resolved
\* while the kickoff status made by the same kickoff() is pending.
C8_CompleteNeverBeforeKickoff ==
    \A c \in 1..Len(threads) : statuses[2 * c].done => statuses[2 * c - 1].done

\* C9 (as claimed): when the thread started by a kickoff() has raised, the
\* complete status of that kickoff(), which the thread was about to resolve,
\* is resolved.
C9_RaisedWorkerResolvesStatus ==
    \A t \in 1..Len(threads) : threads[t].pc = "raised" => statuses[2 * t].done

\* no status object is ever resolved as failed
NoFailedStatus ==
    \A i \in 1..Len(statuses) : statuses[i].done => statuses[i].success

\* ------------------------------------------------- claims: the Status Future
\* the callback is waiting in the queue of the future, or in the list a
\* resolving party took from it
Queued(cb) == \E i \in 1..Len(future.listeners) : future.listeners[i] = cb
Taken(cb) ==
    \E r \in Resolvers :
        \E i \in 1..Len(party.resolver[r].notify) : party.resolver[r].notify[i] = cb
Count(b) == IF b THEN 1 ELSE 0

\* the step is resolver r's call of resolve()
Resolves(r) == party.resolver[r].pc = "ready" /\ party'.resolver[r].pc # "ready"

\* C11: a future is resolved exactly once. A resolve() on a pending future
\* records the outcome asked for; a resolve() on a resolved future fails with
\* DoubleResolutionError and changes nothing in the future; the recorded
\* outcome never changes afterwards, whichever of two parties comes first.
C11_ResolvedExactlyOnce ==
    [][/\ future.status.done => future'.status = future.status
       /\ \A r \in Resolvers :
            Resolves(r) =>
                IF future.status.done
                THEN /\ party'.resolver[r].error = "DoubleResolutionError"
                     /\ future' = future
                ELSE /\ party'.resolver[r].error = "none"
                     /\ future'.status =
                            [done |-> TRUE, success |-> party'.resolver[r].asked]]_vars

\* two parties have called resolve() with different outcomes: the second call
\* failed and the outcome is the first one's
C11_Witness ==
    \E r1, r2 \in Resolvers :
        /\ party.resolver[r1].pc # "ready"
        /\ party.resolver[r1].error = "none"
        /\ party.resolver[r2].error = "DoubleResolutionError"
        /\ party.resolver[r1].asked # party.resolver[r2].asked
        /\ future.status.success = party.resolver[r1].asked

\* C12: every registered callback is invoked exactly once. At every moment a
\* registered callback is either still waiting (in the queue of a pending
\* future, or in the list the resolving party is working through) or was
\* invoked once, never both and never twice; an add_listener() on a resolved
\* future invokes the callback within the call; a callback that was not
\* registered is not invoked.
C12_CallbackInvokedOnce ==
    /\ [](\A cb \in Callbacks :
            /\ party.registrant[cb] = "ready" =>
                   (invoked[cb] = 0 /\ ~Queued(cb) /\ ~Taken(cb))
            /\ party.registrant[cb] = "registered" =>
                   invoked[cb] + Count(Queued(cb)) + Count(Taken(cb)) = 1
            /\ Queued(cb) => ~future.status.done)
    /\ [][\A cb \in Callbacks :
            (party.registrant[cb] = "ready" /\ party'.registrant[cb] = "registered") =>
                IF future.status.done
                THEN invoked'[cb] = 1
                ELSE invoked'[cb] = 0 /\ future'.listeners = Append(future.listeners, cb)]_vars

\* while the resolving party still has a queued callback to invoke, another
\* callback was registered on the resolved future and invoked at once
C12_Witness ==
    \E r \in Resolvers : \E cb1, cb2 \in Callbacks :
        /\ party.resolver[r].pc = "notifying"
        /\ party.resolver[r].notify = <<cb1>>
        /\ invoked[cb1] = 0
        /\ party.registrant[cb2] = "registered"
        /\ invoked[cb2] = 1

\* ------------------------------------------- claims: the documents of a run
\* the session runs the fly plan; the generator of its latest collect
FlySession == config.plan = FlyPlan
RunGen == gens[Len(gens)]

\* the events of the log, and whether they are numbered 1, 2, ... in order
AllEvents(log) == SelectSeq(log, LAMBDA d : d.name = "event")
Numbered(evs) == \A i \in 1..Len(evs) : evs[i].seq_num = i

\* the read instructions among the first i instructions of the plan, and the
\* instructions of the plan executed so far in the run
Reads(plan, i) == Cardinality({j \in 1..i : plan[j] = "read"})
Executed == IF re.pc = "run" THEN re.i ELSE Len(config.plan)

\* C13: in the log of a run every event comes after a descriptor of its
\* stream, whether the event is a reading, an event of a flyer or a sample of
\* the monitored signal.
C13_DescriptorBeforeEvents ==
    \A i \in 1..Len(docs) :
        docs[i].name = "event" =>
            \E j \in 1..(i - 1) :
                /\ docs[j].name = "descriptor"
                /\ docs[j].stream = docs[i].stream

\* a log with events of a flyer and samples of the signal
C13_Witness ==
    /\ \E i \in 1..Len(docs) : docs[i].name = "event" /\ docs[i].stream = "ifly"
    /\ \E i \in 1..Len(docs) : docs[i].name = "event" /\ docs[i].stream = "I_monitor"

\* C14: the log of a run has one stop document, which is its last document:
\* a stop document is at the end of the log in every state, so none is
\* followed by another document, and a run that is over has its stop document.
C14_StopIsLast ==
    /\ \A i \in 1..Len(docs) : docs[i].name = "stop" => i = Len(docs)
    /\ (re.pc = "idle" /\ docs # <<>>) => Sealed(docs)

\* a sample that was on its way when the run was closed has arrived
C14_Witness ==
    /\ Sealed(docs)
    /\ ~mon.inflight
    /\ mon.fired > mon.arrived

\* C15: while and after a plan of read and set instructions runs, the events
\* of the primary stream are numbered 1, 2, ... in order and there is one per
\* read instruction executed; without a monitored signal the log has no
\* other event.
C15_ReadsNumberedFromOne ==
    (~FlySession /\ docs # <<>>) =>
        LET evs == EventsOf(docs, "primary") IN
        /\ Len(evs) = Reads(config.plan, Executed)
        /\ Numbered(evs)
        /\ ~config.monitored => AllEvents(docs) = evs

\* the 15-point scan is over and its log holds 15 events
C15_Witness ==
    /\ Sealed(docs)
    /\ config.plan = scan(ScanNum)
    /\ ~config.monitored
    /\ Len(AllEvents(docs)) = ScanNum

\* C16 as stated: when the fly plan is over, the flyer's stream holds as many
\* events as collect() yielded.
C16_EveryYieldedEventRecorded ==
    (FlySession /\ Sealed(docs)) =>
        Len(EventsOf(docs, StreamName(config.flyer))) = RunGen.n

\* C16: while and after the fly plan collects, the flyer's stream holds one
\* event per dictionary that collect() has yielded with data in it, numbered
\* in the order yielded (1 for the trivial-data flyer, 5 for the 1-D array
\* flyer when the run is over), and none for a flyer whose dictionaries have
\* no data.
C16_EventsWithDataRecorded ==
    (FlySession /\ docs # <<>> /\ re.pc \in {"collecting", "close", "idle"}) =>
        LET evs == EventsOf(docs, StreamName(config.flyer)) IN
        /\ Len(evs) = IF EventData(config.flyer) # {} THEN RunGen.n ELSE 0
        /\ \A i \in 1..Len(evs) :
               evs[i] = Event(StreamName(config.flyer), i, EventData(config.flyer))
        /\ Sealed(docs) => RunGen.n = EventCount(config.flyer)

\* the run of the 1-D array flyer is over and its stream holds five events
C16_Witness ==
    /\ Sealed(docs)
    /\ config.flyer = "array"
    /\ FlySession
    /\ Len(EventsOf(docs, "ifly")) = NumEvents

\* C17: the fly plan on BareMinimumFlyer or on the template MyFlyer, with no
\* monitored signal, emits no descriptor and no event: the log of the run that
\* is over is the start document followed by the stop document.
C17_OnlyStartAndStop ==
    (FlySession /\ config.flyer \in {"BareMinimumFlyer", "template"}
                /\ ~config.monitored) =>
        /\ \A i \in 1..Len(docs) : docs[i].name \in {"start", "stop"}
        /\ Sealed(docs) => docs = <<StartDocument, StopDocument("success")>>

\* the run of the template is over: collect() has yielded its one dictionary
C17_Witness ==
    /\ Sealed(docs)
    /\ FlySession
    /\ config.flyer = "template"
    /\ ~config.monitored
    /\ RunGen = [state |-> "exhausted", n |-> 1]

\* C18: a dictionary yielded by collect() has, under 'data' and under
\* 'timestamps', exactly the keys that describe_collect() of the same flyer
\* declares.
C18_EventKeysAreDeclaredKeys ==
    (ret.op = "next" /\ ret.kind = "event") =>
        /\ ret.data = DataKeys(config.flyer)
        /\ ret.timestamps = DataKeys(config.flyer)

\* collect() of the trivial-data flyer has yielded its dictionary
C18_Witness ==
    /\ ret.op = "next"
    /\ ret.kind = "event"
    /\ config.flyer = "trivial"
    /\ ret.data = {"x"}

\* C19: a cell can call describe_collect() in every state of the flyer; the
\* call returns the same descriptor each time and changes no status object,
\* no attribute, no thread and no generator.
C19_DescribeCollectChangesNothing ==
    /\ [](re.pc = "idle" => ENABLED CellDescribeCollect)
    /\ [][ret'.op = "describe_collect" =>
            /\ ret' = [op |-> "describe_collect", kind |-> "descriptor", id |-> 0,
                       data |-> {"x"}, timestamps |-> {}]
            /\ UNCHANGED <<flyer, gens, started>>]_vars

\* describe_collect() was called on a flyer that was never kicked off
C19_Witness ==
    /\ ret.op = "describe_collect"
    /\ statuses = <<>>
    /\ kickoff_status = Unset

\* C20: in a run of read and set instructions with the signal monitored, the
\* monitor stream holds one event per sample that arrived during the run and
\* the primary stream one per read instruction executed, each numbered 1, 2,
\* ... on its own, however the arrivals and the instructions interleave.
C20_StreamsNumberedApart ==
    (~FlySession /\ config.monitored /\ docs # <<>>) =>
        LET ms == EventsOf(docs, "I_monitor")
            ps == EventsOf(docs, "primary") IN
        /\ Len(ms) = mon.arrived
        /\ Numbered(ms)
        /\ Len(ps) = Reads(config.plan, Executed)
        /\ Numbered(ps)

\* the scan is over; two samples or more arrived, one of them between two
\* readings
C20_Witness ==
    /\ Sealed(docs)
    /\ config.plan = scan(ScanNum)
    /\ mon.arrived >= 2
    /\ Len(EventsOf(docs, "primary")) = ScanNum
    /\ \E i, j, k \in 1..Len(docs) :
          /\ i < j /\ j < k
          /\ docs[i].name = "event" /\ docs[i].stream = "primary"
          /\ docs[j].name = "event" /\ docs[j].stream = "I_monitor"
          /\ docs[k].name = "event" /\ docs[k].stream = "primary"

\* ------------------------------------------------------ aligning the streams
\* the cells that have been executed
SortedDone ==
    tables.cell \in {"sorted_data", "ffilled_data", "interp_data", "interp_sm_data"}
FfilledDone == tables.cell \in {"ffilled_data", "interp_data", "interp_sm_data"}
InterpDone == tables.cell \in {"interp_data", "interp_sm_data"}
DownsampleDone == tables.cell = "interp_sm_data"

TimesOf(t) == {t[i].time : i \in 1..Len(t)}

\* the rows above (below) row i where the column holds a value
Above(t, c, i) == {j \in 1..(i - 1) : ~IsNaN(t[j][c])}
Below(t, c, i) == {j \in (i + 1)..Len(t) : ~IsNaN(t[j][c])}
Last(S) == CHOOSE j \in S : \A k \in S : k <= j
First(S) == CHOOSE j \in S : \A k \in S : j <= k

\* C27: the concatenation of the tables of the streams, indexed by time, keeps
\* every row of every stream: it has as many rows as the streams together, its
\* times are the union of theirs, they never decrease from a row to the next,
\* and a row holds the value of its own stream and nothing in the column of
\* the other stream.
C27_ConcatKeepsEveryRow ==
    SortedDone =>
        LET t == tables.sorted_data
            p == tables.primary
            m == tables.I_monitor IN
        /\ Len(t) = Len(p) + Len(m)
        /\ TimesOf(t) = TimesOf(p) \cup TimesOf(m)
        /\ \A i \in 1..(Len(t) - 1) : t[i].time <= t[i + 1].time
        /\ \A i \in 1..Len(p) : \E j \in 1..Len(t) :
              /\ t[j].time = p[i].time
              /\ t[j].slit_det = p[i].value
              /\ IsNaN(t[j].I)
        /\ \A i \in 1..Len(m) : \E j \in 1..Len(t) :
              /\ t[j].time = m[i].time
              /\ t[j].I = m[i].value
              /\ IsNaN(t[j].slit_det)
        /\ \A j \in 1..Len(t) : IsNaN(t[j].I) # IsNaN(t[j].slit_det)

\* both streams have a row at the same time, and the table has both rows
C27_Witness ==
    /\ SortedDone
    /\ \E j \in 1..(Len(tables.sorted_data) - 1) :
          /\ tables.sorted_data[j].time = tables.sorted_data[j + 1].time
          /\ ~IsNaN(tables.sorted_data[j].slit_det)
          /\ ~IsNaN(tables.sorted_data[j + 1].I)
    /\ Len(tables.sorted_data) > 2

\* C24: forward-fill leaves the times and the values of the sorted table as
\* they are, gives every empty cell the value of the nearest row above it
\* that has one in that column, and leaves a cell empty when no row above it
\* has a value in that column.
C24_ForwardFillTakesLatestValue ==
    FfilledDone =>
        LET t == tables.sorted_data
            f == tables.ffilled_data IN
        /\ Len(f) = Len(t)
        /\ \A i \in 1..Len(t) :
              /\ f[i].time = t[i].time
              /\ \A c \in Columns :
                    IF ~IsNaN(t[i][c]) THEN f[i][c] = t[i][c]
                    ELSE IF Above(t, c, i) = {} THEN IsNaN(f[i][c])
                    ELSE f[i][c] = t[Last(Above(t, c, i))][c]

\* the detector read at times 0, 2 and 4, the signal sampled at times 1 and
\* 3: the first row has no I, the rows at 1 and 3 take the detector's
\* readings of 0 and 2, the rows at 2 and 4 take the I of 1 and 3
C24_Witness ==
    /\ FfilledDone
    /\ LET f == tables.ffilled_data IN
       /\ [i \in 1..Len(f) |-> f[i].time] = <<0, 1, 2, 3, 4>>
       /\ IsNaN(f[1].I)
       /\ f[2].slit_det = Reading(0) /\ f[4].slit_det = Reading(2)
       /\ f[3].I = tables.I_monitor[1].value
       /\ f[5].I = tables.I_monitor[2].value
       /\ tables.I_monitor[1].value # tables.I_monitor[2].value

\* C25: linear interpolation gives an empty cell that lies between two values
\* of its column, v0 at time t0 above it and v1 at time t1 below it, the
\* value v0 + (v1 - v0) * (t - t0) / (t1 - t0) at its own time t, however
\* many empty rows lie between them and however their times are spaced.
C25_InterpolatesByTime ==
    InterpDone =>
        LET t == tables.sorted_data
            f == tables.interp_data IN
        \A i \in 1..Len(t) : \A c \in Columns :
            (/\ IsNaN(t[i][c])
             /\ Above(t, c, i) # {}
             /\ Below(t, c, i) # {}) =>
                LET b == Last(Above(t, c, i))
                    a == First(Below(t, c, i)) IN
                t[b].time < t[a].time =>
                    Same(f[i][c], Between(t[b][c], t[a][c],
                                          t[i].time - t[b].time,
                                          t[a].time - t[b].time))

\* C26: linear interpolation leaves empty a cell that no value of its column
\* precedes, and a cell that no value of its column follows.
C26_NothingOutsideObservedRange ==
    InterpDone =>
        LET t == tables.sorted_data
            f == tables.interp_data IN
        \A i \in 1..Len(t) : \A c \in Columns :
            (IsNaN(t[i][c]) /\ (Above(t, c, i) = {} \/ Below(t, c, i) = {}))
                => IsNaN(f[i][c])

\* the rows of the merged table that the downsampled stream brought: those
\* without a reading of the detector before the interpolation; the i-th of
\* them, as the interpolation left it
Smoothed == {j \in 1..Len(tables.sorted_sm_data) :
                IsNaN(tables.sorted_sm_data[j].slit_det)}
SmoothedRow(i) ==
    tables.interp_sm_data[CHOOSE j \in Smoothed :
                              Cardinality({k \in Smoothed : k <= j}) = i]

C30_ReturnedStatusIsDone ==
    (ret.op \in {"kickoff", "complete"} /\ ret.kind = "status")
        => statuses[ret.id].done

\* ------------------------------------------------ the order of instructions
\* a comes before b in the nesting of the plan: in an earlier iteration, or
\* in the set of the same iteration when b is in its scan
Earlier(a, b) ==
    \/ a.iteration < b.iteration
    \/ a.iteration = b.iteration /\ a.by = "mv" /\ b.by = "scan"

\* C23: the interpreter dispatches the instructions of sweep_exposure_time
\* one by one in the order of the flattened plan: when it dispatches an
\* instruction, every instruction of an earlier iteration, and of the set of
\* the same iteration if it belongs to the scan, has been dispatched, and
\* none of a later one has; and while it awaits the status of an
\* instruction its only step is to go on once that status is done.
C23_PlanOrderFlattened ==
    [][/\ (config.plan = SweepPlan /\ re.pc = "run" /\ re' # re) =>
            LET plan == sweep_exposure_time(ExposureTimes)
                k == re'.i IN
            /\ k = re.i + 1
            /\ ret'.id = k
            /\ ret'.op = plan[k].op
            /\ \A j \in 1..Len(plan) :
                  /\ Earlier(plan[j], plan[k]) => j <= re.i
                  /\ Earlier(plan[k], plan[j]) => j > k
       /\ (ret'.op \in {"kickoff", "complete"} /\ ret'.kind = "status")
            => re'.st = ret'.id
       /\ (re.st # None /\ re' # re)
            => /\ statuses[re.st].done
               /\ ret'.op = "wait"
               /\ re'.st = None]_vars

\* the second scan of the sweep is under way
C23_Witness ==
    /\ config.plan = SweepPlan
    /\ re.pc = "run"
    /\ re.i = Len(mv) + 2 * ScanNum + Len(mv) + 2
    /\ ret.op = "read"
    /\ Len(EventsOf(docs, "primary")) = ScanNum + 1

\* ------------------------------------------------- the events of one stream
\* the positions in the log of the events of a stream
EventPositions(stream) ==
    {i \in 1..Len(docs) : docs[i].name = "event" /\ docs[i].stream = stream}

StreamNames == {"primary", "I_monitor", "ifly", "flyer"}

\* C21: of two events of the same stream, the one later in the log has the
\* greater sequence number and a time that is not earlier, however the
\* appends of the monitor, of the flyer's collect() and of the interpreter
\* interleave and however time passes between them.
C21_EventsOrderedWithinStream ==
    /\ Len(stamps) = Len(docs)
    /\ \A stream \in StreamNames :
          \A i, j \in EventPositions(stream) :
              i < j => /\ docs[i].seq_num < docs[j].seq_num
                       /\ stamps[i] <= stamps[j]

\* a sample was taken before a reading and arrived after it: the log holds
\* an event of I_monitor below an event of primary with a later time, and
\* each stream has two events at different times
C21_Witness ==
    /\ \E i, j \in 1..Len(docs) :
          /\ i < j
          /\ docs[i].name = "event" /\ docs[i].stream = "primary"
          /\ docs[j].name = "event" /\ docs[j].stream = "I_monitor"
          /\ stamps[j] < stamps[i]
    /\ \A stream \in {"primary", "I_monitor"} :
          \E i, j \in EventPositions(stream) : stamps[i] < stamps[j]

\* ------------------------------------------------------------------- abort
\* the log is that of an aborted run
Aborted(log) ==
    \E i \in 1..Len(log) : log[i].name = "stop" /\ log[i].exit_status = "abort"

\* C22: once a run is aborted its log ends with the stop document recording
\* abort, the events of the primary stream are those of the read
\* instructions up to the instruction where the abort came, and as long as
\* that log stands the interpreter dispatches nothing and no document is
\* appended, whatever sample or thread is still on its way.
C22_AbortSealsTheRun ==
    [][Aborted(docs') =>
          /\ docs'[Len(docs')].name = "stop"
          /\ Cardinality({i \in 1..Len(docs') : docs'[i].name = "stop"}) = 1
          /\ ~FlySession =>
                Len(SelectSeq(docs', LAMBDA d : d.name = "event"
                                               /\ d.stream = "primary"))
                    = Reads(config.plan, re'.i)
          /\ Aborted(docs) => (re' = re /\ docs' = docs)]_vars

\* the scan was aborted at its fifth instruction, with instructions left and
\* a sample of the monitored signal on its way, which arrived afterwards
C22_Witness ==
    /\ Aborted(docs)
    /\ config.plan = scan(ScanNum)
    /\ re.i = 5
    /\ mon.fired > mon.arrived
    /\ ~mon.inflight

\* ------------------------------------------------ the threads of the flyer
\* the step is one of thread t
Steps(t) == t \in 1..Len(threads) /\ threads'[t] # threads[t]

\* the thread has returned or raised
Terminated(t) == threads[t].pc \in {"left", "done", "raised"}

\* C31: a step of the thread started by the c-th kickoff() changes no status
\* object but the two that this kickoff() created, whatever kickoff() or
\* collect() the caller has run on the flyer in the meantime.
C31_WorkerResolvesItsOwnStatuses ==
    [][\A t \in 1..Len(threads) :
            Steps(t) =>
                \A i \in 1..Len(statuses) :
                    statuses'[i] # statuses[i] => i \in {2 * t - 1, 2 * t}]_vars

\* C32: a thread never calls _finished() on a status object that is already
\* done, under any sequence of calls and any interleaving of the threads.
C32_NoSecondResolution ==
    [][\A t \in 1..Len(threads) :
            /\ (Steps(t) /\ threads[t].pc = "notify_kickoff")
                  => ~statuses[kickoff_status].done
            /\ (Steps(t) /\ threads[t].pc = "notify_complete"
                         /\ complete_status # None)
                  => ~statuses[complete_status].done]_vars

\* C33: when the thread started by a kickoff() has terminated, the kickoff
\* status and the complete status that this kickoff() created are both done.
C33_TerminatedWorkerResolvedBoth ==
    \A t \in 1..Len(threads) :
        Terminated(t) => (statuses[2 * t - 1].done /\ statuses[2 * t].done)

\* ------------------------------------------------ collect() without a request
\* C34: a call of collect() changes no status object, no attribute and no
\* thread of the flyer; a complete() that follows it returns the complete
\* status of the collection in progress; and complete_status is cleared only
\* by the step that requests the first element of a generator.
C34_CollectCallChangesNothing ==
    [][/\ ret'.op = "collect" => UNCHANGED <<flyer, started>>
       /\ (ret.op = "collect" /\ ret'.op = "complete" /\ complete_status # None)
             => (ret'.kind = "status" /\ ret'.id = complete_status)
       /\ (complete_status # None /\ complete_status' = None)
             => /\ ret'.op = "next"
                /\ \E g \in 1..Len(gens) :
                      /\ gens[g].state = "created"
                      /\ gens'[g].state # "created"]_vars

\* complete() has returned the pending complete status right after a
\* collect() whose generator nobody has asked for an element
C34_Witness ==
    /\ ret.op = "complete"
    /\ ret.kind = "status"
    /\ ret.id = complete_status
    /\ ~statuses[complete_status].done
    /\ gens # <<>>
    /\ \A g \in 1..Len(gens) : gens[g].state = "created"

\* ------------------------------------------------- what the fills leave alone
\* the table f has the rows of t, with their times and with every value that
\* t holds
Keeps(t, f) ==
    /\ Len(f) = Len(t)
    /\ \A i \in 1..Len(t) :
          /\ f[i].time = t[i].time
          /\ \A c \in Columns : ~IsNaN(t[i][c]) => f[i][c] = t[i][c]

\* C35: the forward-filled table and the interpolated table have the rows of
\* the sorted table, each with its time and with every value the sorted
\* table holds; and forward-filling the forward-filled table gives the same
\* table again.
C35_FillsKeepWhatWasObserved ==
    /\ FfilledDone =>
          /\ Keeps(tables.sorted_data, tables.ffilled_data)
          /\ ffill(tables.ffilled_data) = tables.ffilled_data
    /\ InterpDone => Keeps(tables.sorted_data, tables.interp_data)

\* a column has a value followed by two empty cells, which both fills have
\* filled
C35_Witness ==
    /\ InterpDone
    /\ \E c \in Columns : \E i \in 1..(Len(tables.sorted_data) - 2) :
          /\ ~IsNaN(tables.sorted_data[i][c])
          /\ IsNaN(tables.sorted_data[i + 1][c])
          /\ IsNaN(tables.sorted_data[i + 2][c])
          /\ tables.ffilled_data[i + 2][c] = tables.sorted_data[i][c]
          /\ ~IsNaN(tables.interp_data[i + 2][c])


====
